---- MODULE Spec2Model ----
(***************************************************************************)
(* Business-card scanner: the OCR variant scorer and the contact           *)
(* extractor, as implemented by the four entry points                      *)
(*   business_card_scanner.py  (folder batch job)                          *)
(*   app.py                    (upload endpoint)                           *)
(*   web_app.py                (upload endpoint)                           *)
(*   email_processor.py        (mailbox daemon)                            *)
(*                                                                         *)
(* A text is a sequence of one-character strings.  The regular expressions *)
(* of the source are transcribed as syntax trees and matched by a          *)
(* backtracking matcher that yields the end positions of a match in the    *)
(* priority order of Python's re module (greedy, leftmost alternative      *)
(* first), so that search() and findall() return what re returns.          *)
(***************************************************************************)
EXTENDS Integers, Sequences, FiniteSets, TLC

(***************************************************************************)
(* Characters                                                              *)
(***************************************************************************)
Lower == {"a","b","c","d","e","f","g","h","i","j","k","l","m",
          "n","o","p","q","r","s","t","u","v","w","x","y","z"}
Upper == {"A","B","C","D","E","F","G","H","I","J","K","L","M",
          "N","O","P","Q","R","S","T","U","V","W","X","Y","Z"}
Alpha == Lower \cup Upper
Digit == {"0","1","2","3","4","5","6","7","8","9"}
Space == {" ", "\t", "\n", "\r", "\f"}
LineBreak == {"\n", "\r", "\f"}
Punct == {"@", ".", "-", "_", "%", "+", "(", ")", "/", ":", "|", ","}
Char == Alpha \cup Digit \cup Space \cup Punct
WordChar == Alpha \cup Digit \cup {"_"}

(***************************************************************************)
(* Regular expression syntax trees                                         *)
(***************************************************************************)
Cls(c) == [t |-> "cls", c |-> c]
Lit(ch) == [t |-> "cls", c |-> {ch}]
Cat(rs) == [t |-> "cat", rs |-> rs]
Alt(a, b) == [t |-> "alt", a |-> a, b |-> b]
Opt(a) == [t |-> "opt", a |-> a]
Star(a) == [t |-> "star", a |-> a]
Plus(a) == Cat(<<a, Star(a)>>)
AtLeast2(a) == Cat(<<a, a, Star(a)>>)
WordBoundary == [t |-> "wb"]

IsWordBoundary(s, i) ==
    LET before == i > 1 /\ s[i-1] \in WordChar
        after == i <= Len(s) /\ s[i] \in WordChar
    IN  before # after

RECURSIVE Ends(_, _, _)
RECURSIVE EndsCat(_, _, _)
RECURSIVE EndsFrom(_, _, _)
(* the end positions of the matches of r in s that start at i, best first *)
Ends(r, s, i) ==
    CASE r.t = "cls" -> IF i <= Len(s) /\ s[i] \in r.c THEN <<i + 1>> ELSE <<>>
      [] r.t = "wb" -> IF IsWordBoundary(s, i) THEN <<i>> ELSE <<>>
      [] r.t = "cat" -> EndsCat(r.rs, s, <<i>>)
      [] r.t = "alt" -> Ends(r.a, s, i) \o Ends(r.b, s, i)
      [] r.t = "opt" -> Ends(r.a, s, i) \o <<i>>
      [] r.t = "star" -> EndsFrom(r, s, Ends(r.a, s, i)) \o <<i>>

(* the matches of the rest rs of a concatenation, from each position of js *)
EndsCat(rs, s, js) ==
    IF rs = <<>> THEN js
    ELSE EndsCat(Tail(rs), s, EndsFrom(Head(rs), s, js))

(* the matches of r from each position of js, in the order of js *)
EndsFrom(r, s, js) ==
    IF js = <<>> THEN <<>>
    ELSE Ends(r, s, Head(js)) \o EndsFrom(r, s, Tail(js))

NoMatch == <<>>

RECURSIVE SearchFrom(_, _, _)
(* re.search from position i: <<start, end>> of the leftmost match *)
SearchFrom(r, s, i) ==
    IF i > Len(s) + 1 THEN NoMatch
    ELSE LET es == Ends(r, s, i)
         IN  IF es # <<>> THEN <<i, Head(es)>> ELSE SearchFrom(r, s, i + 1)

RECURSIVE SearchBack(_, _, _)
SearchBack(r, s, i) ==
    IF i < 1 THEN NoMatch
    ELSE LET es == Ends(r, s, i)
         IN  IF es # <<>> THEN <<i, Head(es)>> ELSE SearchBack(r, s, i - 1)
(* the match that starts last instead of first *)
SearchLast(r, s) == SearchBack(r, s, Len(s) + 1)
Search(r, s) == SearchFrom(r, s, 1)

Group0(s, m) == SubSeq(s, m[1], m[2] - 1)

RECURSIVE FindAllFrom(_, _, _)
(* re.findall: the non-overlapping matches, left to right *)
FindAllFrom(r, s, i) ==
    LET m == SearchFrom(r, s, i)
    IN  IF m = NoMatch THEN <<>>
        ELSE <<Group0(s, m)>> \o
             FindAllFrom(r, s, IF m[2] > m[1] THEN m[2] ELSE m[2] + 1)

FindAll(r, s) == FindAllFrom(r, s, 1)

(***************************************************************************)
(* str methods used by the source                                          *)
(***************************************************************************)
RECURSIVE SplitOn(_, _)
(* the maximal runs of s between characters of seps, empty runs included *)
SplitOn(s, seps) ==
    IF \A k \in 1..Len(s) : s[k] \notin seps THEN <<s>>
    ELSE LET k == CHOOSE k \in 1..Len(s) :
                     s[k] \in seps /\ \A m \in 1..(k-1) : s[m] \notin seps
         IN  <<SubSeq(s, 1, k - 1)>> \o SplitOn(SubSeq(s, k + 1, Len(s)), seps)

NonEmpty(x) == x # <<>>

(* str.split(): the words between runs of whitespace *)
split(s) == SelectSeq(SplitOn(s, Space), NonEmpty)

(* str.split('\n') *)
split_nl(s) == SplitOn(s, {"\n"})

(* str.splitlines(); the empty last line it drops is dropped by every caller *)
splitlines(s) == SplitOn(s, LineBreak)

RECURSIVE lstrip(_)
lstrip(s) == IF s # <<>> /\ Head(s) \in Space THEN lstrip(Tail(s)) ELSE s

RECURSIVE rstrip(_)
rstrip(s) ==
    IF s # <<>> /\ s[Len(s)] \in Space THEN rstrip(SubSeq(s, 1, Len(s) - 1)) ELSE s

strip(s) == rstrip(lstrip(s))

RECURSIVE join(_, _)
(* sep.join(xs) *)
join(sep, xs) ==
    IF xs = <<>> THEN <<>>
    ELSE IF Len(xs) = 1 THEN xs[1]
    ELSE xs[1] \o sep \o join(sep, Tail(xs))

RECURSIVE StripAll(_)
StripAll(ls) == IF ls = <<>> THEN <<>> ELSE <<strip(Head(ls))>> \o StripAll(Tail(ls))

(* [l.strip() for l in ls if l.strip()] *)
StrippedLines(ls) == SelectSeq(StripAll(ls), NonEmpty)

(* xs[:n] *)
Take(xs, n) == SubSeq(xs, 1, IF Len(xs) < n THEN Len(xs) ELSE n)

(***************************************************************************)
(* The patterns                                                            *)
(***************************************************************************)
D3 == Cat(<<Cls(Digit), Cls(Digit), Cls(Digit)>>)
D4 == Cat(<<Cls(Digit), Cls(Digit), Cls(Digit), Cls(Digit)>>)
PhoneSep == Cls(Space \cup {"-", "."})
LocalPart == Plus(Cls(Alpha \cup Digit \cup {".", "_", "%", "+", "-"}))
DomainPart == Plus(Cls(Alpha \cup Digit \cup {".", "-"}))
Scheme == Cat(<<Lit("h"), Lit("t"), Lit("t"), Lit("p"), Opt(Lit("s")),
                Lit(":"), Lit("/"), Lit("/")>>)
Www == Cat(<<Lit("w"), Lit("w"), Lit("w"), Lit(".")>>)
Label == Plus(Cls(Alpha \cup Digit \cup {"-"}))
DotTld == Cat(<<Lit("."), AtLeast2(Cls(Alpha))>>)
Path == Cat(<<Lit("/"), Star(Cls(Char \ Space))>>)

\* [A-Za-z0-9._%+-]+@[A-Za-z0-9.-]+\.[A-Za-z]{2,} with re.I
EMAIL_RE == Cat(<<LocalPart, Lit("@"), DomainPart, Lit("."), AtLeast2(Cls(Alpha))>>)

\* (?:(?:\+?1[\s\-.])?)?(?:\(?\d{3}\)?|\d{3})[\s\-.]?\d{3}[\s\-.]?\d{4}
PHONE_RE ==
    Cat(<<Opt(Opt(Cat(<<Opt(Lit("+")), Lit("1"), PhoneSep>>))),
          Alt(Cat(<<Opt(Lit("(")), D3, Opt(Lit(")"))>>), D3),
          Opt(PhoneSep), D3, Opt(PhoneSep), D4>>)

\* \b(?:https?://)?(?:www\.)?[A-Za-z0-9\-]+(?:\.[A-Za-z]{2,}){1,}(/[^\s]*)?\b
WEB_RE ==
    Cat(<<WordBoundary, Opt(Scheme), Opt(Www), Label, Plus(DotTld), Opt(Path),
          WordBoundary>>)

\* \b[A-Za-z0-9._%+-]+@[A-Za-z0-9.-]+\.[A-Z|a-z]{2,}\b
EMAIL_PATTERN ==
    Cat(<<WordBoundary, LocalPart, Lit("@"), DomainPart, Lit("."),
          AtLeast2(Cls(Alpha \cup {"|"})), WordBoundary>>)

\* (?:\+?1[\s\-.])?(?:\(?\d{3}\)?[\s\-.]?)?\d{3}[\s\-.]?\d{4}
PHONE_PATTERN ==
    Cat(<<Opt(Cat(<<Opt(Lit("+")), Lit("1"), PhoneSep>>)),
          Opt(Cat(<<Opt(Lit("(")), D3, Opt(Lit(")")), Opt(PhoneSep)>>)),
          D3, Opt(PhoneSep), D4>>)

\* (?:https?://)?(?:www\.)?[A-Za-z0-9\-]+(?:\.[A-Za-z]{2,}){1,}(?:/[^\s]*)?
WEBSITE_PATTERN == Cat(<<Opt(Scheme), Opt(Www), Label, Plus(DotTld), Opt(Path)>>)

(***************************************************************************)
(* Contact Extractor                                                       *)
(***************************************************************************)
(* Optional[str]: None, or a text *)
None == <<>>
Some(x) == <<x>>
Group0OrNone(s, m) == IF m = NoMatch THEN None ELSE Some(Group0(s, m))

HasContact(email_re, phone_re, web_re, ln) ==
    \/ Search(email_re, ln) # NoMatch
    \/ Search(phone_re, ln) # NoMatch
    \/ Search(web_re, ln) # NoMatch

ScanLimit == 6
ScanLimitApp == 5

(* the candidate loop of parse: lines without a contact match and with *)
(* more than one word, in order *)
IsCandidateAnyLength(ln) == ~HasContact(EMAIL_RE, PHONE_RE, WEB_RE, ln)
IsCandidate(ln) == ~HasContact(EMAIL_RE, PHONE_RE, WEB_RE, ln) /\ ~(Len(split(ln)) <= 1)
Candidates(lines) == SelectSeq(Take(lines, ScanLimit), IsCandidate)

(* business_card_scanner.py parse *)
parse(text) ==
    LET lines == StrippedLines(splitlines(text))
        block == join(<<"\n">>, lines)
        candidates == Candidates(lines)
    IN  [name |-> IF candidates # <<>> THEN Some(candidates[1]) ELSE None,
         company |-> IF Len(candidates) > 1 THEN Some(candidates[2]) ELSE None,
         email |-> Group0OrNone(block, Search(EMAIL_RE, block)),
         phone |-> Group0OrNone(block, Search(PHONE_RE, block)),
         website |-> Group0OrNone(block, Search(WEB_RE, block)),
         raw_text |-> Some(block)]

FiveFields == {"name", "company", "email", "phone", "website"}

(* web_app.py and email_processor.py parse_contact_info: the same code *)
(* without the raw_text key *)
parse_contact_info(text) ==
    LET r == parse(text) IN [f \in FiveFields |-> r[f]]

RECURSIVE ScanApp(_, _, _)
(* the name/company loop of app.py, from the state (name, company); *)
(* "break" after the company is set *)
ScanApp(ls, name, company) ==
    IF ls = <<>> THEN <<name, company>>
    ELSE LET line == Head(ls)
         IN  IF HasContact(EMAIL_PATTERN, PHONE_PATTERN, WEBSITE_PATTERN, line)
             THEN ScanApp(Tail(ls), name, company)
             ELSE IF Len(split(line)) < 2
             THEN ScanApp(Tail(ls), name, company)
             ELSE IF name = None
             THEN ScanApp(Tail(ls), Some(line), company)
             ELSE IF company = None /\ Len(split(line)) > 1
             THEN <<name, Some(line)>>
             ELSE ScanApp(Tail(ls), name, company)

EmptyDict == [f \in {} |-> None]

(* app.py parse_contact_info *)
parse_contact_info_app(text) ==
    IF text = <<>> THEN EmptyDict
    ELSE LET lines == StrippedLines(split_nl(text))
             nc == ScanApp(Take(lines, ScanLimitApp), None, None)
         IN  [name |-> nc[1],
              company |-> nc[2],
              email |-> Group0OrNone(text, Search(EMAIL_PATTERN, text)),
              phone |-> Group0OrNone(text, Search(PHONE_PATTERN, text)),
              website |-> Group0OrNone(text, Search(WEBSITE_PATTERN, text))]

(***************************************************************************)
(* Variant Scorer                                                          *)
(***************************************************************************)
Entries == {"business_card_scanner", "app", "web_app", "email_processor"}

(* the variations list of each copy, in the declared order *)
Variations(e) ==
    IF e = "app"
    THEN <<"Original", "High Contrast", "Sharpened", "Brightened">>
    ELSE <<"Original", "High Contrast", "Rotated 90", "Rotated 180", "Rotated 270">>

EmailPattern(e) == IF e = "app" THEN EMAIL_PATTERN ELSE EMAIL_RE
PhonePattern(e) == IF e = "app" THEN PHONE_PATTERN ELSE PHONE_RE

(* score = len(emails) * 10 + len(phones) * 5 + len(text.split()) *)
ScoreSwapped(e, t) ==
    Len(FindAll(EmailPattern(e), t)) * 5 + Len(FindAll(PhonePattern(e), t)) * 10
        + Len(split(t))
Score(e, t) ==
    Len(FindAll(EmailPattern(e), t)) * 10 + Len(FindAll(PhonePattern(e), t)) * 5
        + Len(split(t))

(* if score > best_score *)
BetterOrEqual(s, best) == s >= best
Better(s, best) == s > best

(* what the OCR collaborator can answer for one variant: it raises, or it *)
(* returns a text *)
Raises == <<>>
Returns(t) == <<t>>
TEXT_FF == <<"\f">>
TEXT_AB == <<"a", " ", "b">>
TEXT_CD == <<"c", " ", "d">>
\* "a@b.co\n555-1234"
TEXT_CARD == <<"a","@","b",".","c","o","\n","5","5","5","-","1","2","3","4">>
OcrTexts == {TEXT_FF, TEXT_AB, TEXT_CD, TEXT_CARD}
OcrOutcomes == {Raises} \cup {Returns(t) : t \in OcrTexts}
NoScore == 0 - 1

VARIABLES
    entry,        \* the copy of the scorer that runs
    mime,         \* the declared media type of the input
    pc,           \* "call", "prep", "loop", "returned"
    opened,       \* how decoding ended: "none", "ok", "raised", "nopages"
    prep,         \* 0, or the variant whose transform raised
    i,            \* the position of the loop in the variations list
    best_result,
    best_score,
    ocr_text,     \* the local text of the last variant tried (an outcome)
    score,        \* the local score of the last variant tried
    tried,        \* the outcomes of the OCR calls made so far, in order
    scored,       \* the score computed after each call, NoScore if it raised
    result,       \* None until the function returns, then Some(text)
    raised,       \* an exception left the function
    text,         \* the argument of the Contact Extractor
    parser,       \* the copy of the Contact Extractor that ran, or "none"
    record,       \* the record it returned
    ep,           \* the entry point that runs, or "none"
    epc,          \* its position: "next", "extracted", "parsed", "stopped"
    card,         \* the image it is processing
    uploads,      \* the upload folder: file name -> image stored under it
    log,          \* what was done for each image processed so far
    name,         \* the argument of the name split
    splitter,     \* the copy of the name split that ran, or "none"
    merge,        \* the FNAME and LNAME it produced
    req,          \* the upload requests in flight
    inbox,        \* the messages of the mailbox (sequence numbers)
    seen,         \* the messages that carry the \Seen flag
    mpc,          \* the daemon: "idle", "connected", "loop", "processed"
    polls,        \* the polls started so far
    email_ids,    \* the result of the UNSEEN search of the current poll
    at,           \* the position of the loop in email_ids
    events,       \* what the current poll did to the messages, in order
    poll_ok,      \* the last poll ended without an exception or refusal
    settled       \* the messages found by the polls that ended that way

scorerVars == <<entry, mime, pc, opened, prep, i, best_result, best_score,
                ocr_text, score, tried, scored, result, raised>>
parseVars == <<text, parser, record>>
entryVars == <<ep, epc, card, uploads, log>>
splitVars == <<name, splitter, merge>>
uploadVars == <<req>>
inboxVars == <<inbox, seen, mpc, polls, email_ids, at, events, poll_ok, settled>>
vars == <<entry, mime, pc, opened, prep, i, best_result, best_score,
          ocr_text, score, tried, scored, result, raised, text, parser, record,
          entryVars, splitVars, uploadVars, inboxVars>>

ParseIdle == text = <<>> /\ parser = "none" /\ record = EmptyDict
NoFiles == [f \in {} |-> ""]
EntryIdle ==
    /\ ep = "none"
    /\ epc = "idle"
    /\ card = "none"
    /\ uploads = NoFiles
    /\ log = <<>>
SplitIdle == name = <<>> /\ splitter = "none" /\ merge = EmptyDict
UploadIdle == req = <<>>
InboxIdle ==
    /\ inbox = {}
    /\ seen = {}
    /\ mpc = "off"
    /\ polls = 0
    /\ email_ids = <<>>
    /\ at = 0
    /\ events = <<>>
    /\ poll_ok = FALSE
    /\ settled = {}

Init ==
    /\ entry \in Entries
    /\ mime \in (IF entry = "business_card_scanner"
                 THEN {"image/jpeg", "application/pdf"} ELSE {"image/jpeg"})
    /\ pc = "call"
    /\ opened = "none"
    /\ prep = 0
    /\ i = 0
    /\ best_result = <<>>
    /\ best_score = 0
    /\ ocr_text = Raises
    /\ score = 0
    /\ tried = <<>>
    /\ scored = <<>>
    /\ result = None
    /\ raised = FALSE
    /\ ParseIdle
    /\ EntryIdle
    /\ SplitIdle
    /\ UploadIdle
    /\ InboxIdle

(* the outer "except Exception as e: ...; return ''" *)
OuterExceptReraises == [result |-> None, raised |-> TRUE]
OuterExcept == [result |-> Some(<<>>), raised |-> FALSE]

(* decoding: convert_from_bytes / Image.open / convert('RGB') / convert('L') *)
DecodeFails ==
    /\ pc = "call"
    /\ \E how \in {"raised"} \cup (IF mime = "application/pdf" THEN {"nopages"} ELSE {}) :
          /\ opened' = how
          /\ result' = (IF how = "nopages" THEN Some(<<>>) ELSE OuterExcept.result)
          /\ raised' = (IF how = "nopages" THEN FALSE ELSE OuterExcept.raised)
    /\ pc' = "returned"
    /\ UNCHANGED <<entry, mime, prep, i, best_result, best_score, ocr_text,
                   score, tried, scored, text, parser, record>>
    /\ UNCHANGED <<entryVars, splitVars, uploadVars, inboxVars>>

DecodeOk ==
    /\ pc = "call"
    /\ opened' = "ok"
    /\ pc' = "prep"
    /\ UNCHANGED <<entry, mime, prep, i, best_result, best_score, ocr_text,
                   score, tried, scored, result, raised, text, parser, record>>
    /\ UNCHANGED <<entryVars, splitVars, uploadVars, inboxVars>>

(* building the variations list: the transforms of variants 2.. run here, *)
(* inside the outer try only *)
BuildOk ==
    /\ pc = "prep"
    /\ pc' = "loop"
    /\ i' = 1
    /\ best_result' = <<>>
    /\ best_score' = 0
    /\ UNCHANGED <<entry, mime, opened, prep, ocr_text, score, tried, scored,
                   result, raised, text, parser, record>>
    /\ UNCHANGED <<entryVars, splitVars, uploadVars, inboxVars>>

BuildFails ==
    /\ pc = "prep"
    /\ \E k \in 2..Len(Variations(entry)) : prep' = k
    /\ result' = OuterExcept.result
    /\ raised' = OuterExcept.raised
    /\ pc' = "returned"
    /\ UNCHANGED <<entry, mime, opened, i, best_result, best_score, ocr_text,
                   score, tried, scored, text, parser, record>>
    /\ UNCHANGED <<entryVars, splitVars, uploadVars, inboxVars>>

(* the inner "except Exception: continue": the loop goes on *)
InnerExceptReraises(st) == [pc |-> "returned", result |-> None, raised |-> TRUE]
InnerExcept(st) == [pc |-> "loop", result |-> st.result, raised |-> st.raised]

(* one iteration of the loop whose OCR call raises *)
TryRaises ==
    /\ pc = "loop"
    /\ i <= Len(Variations(entry))
    /\ ocr_text' = Raises
    /\ tried' = Append(tried, Raises)
    /\ scored' = Append(scored, NoScore)
    /\ i' = i + 1
    /\ LET st == InnerExcept([pc |-> pc, result |-> result, raised |-> raised])
       IN  pc' = st.pc /\ result' = st.result /\ raised' = st.raised
    /\ UNCHANGED <<entry, mime, opened, prep, best_result, best_score, score,
                   text, parser, record>>
    /\ UNCHANGED <<entryVars, splitVars, uploadVars, inboxVars>>

(* one iteration of the loop whose OCR call returns t *)
TryReturns ==
    /\ pc = "loop"
    /\ i <= Len(Variations(entry))
    /\ \E t \in OcrTexts :
          LET s == Score(entry, t)
          IN  /\ ocr_text' = Returns(t)
              /\ tried' = Append(tried, Returns(t))
              /\ scored' = Append(scored, s)
              /\ score' = s
              /\ IF Better(s, best_score)
                 THEN best_score' = s /\ best_result' = t
                 ELSE UNCHANGED <<best_score, best_result>>
    /\ i' = i + 1
    /\ UNCHANGED <<entry, mime, pc, opened, prep, result, raised, text, parser,
                   record>>
    /\ UNCHANGED <<entryVars, splitVars, uploadVars, inboxVars>>

(* return best_result *)
Return ==
    /\ pc = "loop"
    /\ i > Len(Variations(entry))
    /\ result' = Some(best_result)
    /\ pc' = "returned"
    /\ UNCHANGED <<entry, mime, opened, prep, i, best_result, best_score,
                   ocr_text, score, tried, scored, raised, text, parser,
                   record>>
    /\ UNCHANGED <<entryVars, splitVars, uploadVars, inboxVars>>

Next ==
    \/ DecodeFails
    \/ DecodeOk
    \/ BuildOk
    \/ BuildFails
    \/ TryRaises
    \/ TryReturns
    \/ Return

Spec == Init /\ [][Next]_vars

(***************************************************************************)
(* Properties of the Variant Scorer                                        *)
(***************************************************************************)
LoopCompleted == pc = "returned" /\ Len(tried) = Len(Variations(entry))
ScoreOfCall(k) == scored[k]
(* the calls whose text has the greatest score of all calls, when positive *)
BestCalls == {k \in 1..Len(tried) :
                 /\ ScoreOfCall(k) > 0
                 /\ \A m \in 1..Len(tried) : ScoreOfCall(m) <= ScoreOfCall(k)}

(* C1: once every variant has been tried, the returned text is an OCR      *)
(* output of a successful call whose score is the greatest among the       *)
(* successful calls, and it is the empty string when no call succeeded or  *)
(* no call produced a text with a word in it (every score is 0).           *)
C1_ReturnsGreatestScore ==
    LoopCompleted =>
        IF BestCalls # {}
        THEN \E k \in BestCalls : result = Some(tried[k][1])
        ELSE result = Some(<<>>)

(* C1 witness: a run with a failed call, a blank text and two texts of     *)
(* different positive scores, returning the greater one.                   *)
C1_Witness ==
    /\ LoopCompleted
    /\ entry = "web_app"
    /\ tried = <<Returns(TEXT_AB), Raises, Returns(TEXT_CARD), Returns(TEXT_FF),
                 Returns(TEXT_CD)>>
    /\ result = Some(TEXT_CARD)

(* C2: of several calls with the greatest score, the text of the earliest  *)
(* variant in the declared order is returned.                              *)
C2_TieBreakEarliest ==
    (LoopCompleted /\ BestCalls # {}) =>
        LET first == CHOOSE k \in BestCalls : \A m \in BestCalls : k <= m
        IN  result = Some(tried[first][1])

(* C2 witness: Original and High Contrast tie with different texts and     *)
(* nothing beats them; the text of Original is returned.                   *)
C2_Witness ==
    /\ LoopCompleted
    /\ tried[1] = Returns(TEXT_AB)
    /\ tried[2] = Returns(TEXT_CD)
    /\ BestCalls = {1, 2}
    /\ result = Some(TEXT_AB)

(* C3: in a step of the loop, a variant whose score is not strictly        *)
(* greater than the best score leaves the best text and the best score     *)
(* unchanged, and the best score never decreases.                          *)
C3_MonotonicSelection ==
    [][(pc = "loop" /\ i' = i + 1) =>
          /\ best_score' >= best_score
          /\ (ocr_text' # Raises /\ ~(score' > best_score)) =>
                 (best_result' = best_result /\ best_score' = best_score)]_vars

(* C3 witness: a variant with a different text and the score of the best   *)
(* has just been tried, and the best is still the earlier text.            *)
C3_Witness ==
    /\ pc = "loop"
    /\ ocr_text = Returns(TEXT_CD)
    /\ score = best_score
    /\ best_result = TEXT_AB

(* C4: the score computed for an OCR text is 10 times the number of email  *)
(* matches plus 5 times the number of phone matches plus the number of     *)
(* words, with the patterns of the copy; "a@b.co\n555-1234" scores 17 in   *)
(* app.py (its phone pattern takes 7 digits) and 12 in the other copies.   *)
C4_ScoreFormula ==
    ocr_text # Raises =>
        /\ score = 10 * Len(FindAll(EmailPattern(entry), ocr_text[1]))
                   + 5 * Len(FindAll(PhonePattern(entry), ocr_text[1]))
                   + Len(split(ocr_text[1]))
        /\ ocr_text[1] = TEXT_CARD => score = (IF entry = "app" THEN 17 ELSE 12)
        /\ ocr_text[1] = TEXT_AB => score = 2
        /\ ocr_text[1] = TEXT_FF => score = 0

(* C4 witness: app.py has scored a text with an email, a phone and two     *)
(* words.                                                                  *)
C4_Witness ==
    /\ entry = "app"
    /\ ocr_text = Returns(TEXT_CARD)
    /\ score = 17
    /\ best_result = TEXT_CARD

(* C5: a failure of one variant's preprocessing or OCR attempt is skipped: *)
(* the loop goes on over the other variants, every one of which gets its   *)
(* OCR call, and the result is the best text among them.                   *)
C5_VariantFailureSkipped ==
    (pc = "returned" /\ opened = "ok") =>
        /\ Len(tried) = Len(Variations(entry)) - (IF prep # 0 THEN 1 ELSE 0)
        /\ IF BestCalls # {}
           THEN \E k \in BestCalls : result = Some(tried[k][1])
           ELSE result = Some(<<>>)

(* C6: when every OCR call fails, the function returns the empty string    *)
(* and no exception leaves it.                                             *)
C6_TotalOcrFailure ==
    (\A k \in 1..Len(tried) : tried[k] = Raises) =>
        /\ ~raised
        /\ best_result = <<>>
        /\ pc = "returned" => result = Some(<<>>)

(* C6 witness: the five OCR calls of the folder job all failed and it      *)
(* returned the empty string.                                              *)
C6_Witness ==
    /\ entry = "business_card_scanner"
    /\ tried = <<Raises, Raises, Raises, Raises, Raises>>
    /\ pc = "returned"
    /\ result = Some(<<>>)
    /\ ~raised

(* C7: when the bytes cannot be decoded, or a PDF has no page, the         *)
(* function returns the empty string, no OCR call is made and no exception *)
(* leaves it.                                                              *)
C7_DecodeFailure ==
    opened \in {"raised", "nopages"} =>
        /\ pc = "returned"
        /\ result = Some(<<>>)
        /\ tried = <<>>
        /\ ~raised

(* C7 witness: decoding raised in the mailbox daemon's copy.               *)
C7_Witness ==
    /\ entry = "email_processor"
    /\ opened = "raised"
    /\ result = Some(<<>>)
    /\ tried = <<>>

(***************************************************************************)
(* Contact Extractor: the four copies applied to a text                    *)
(***************************************************************************)
MaxLines == 3

NL == <<"\n">>
LINE_NAME == <<"J"," ","D">>
LINE_COMPANY == <<"A"," ","C">>
LINE_EMAIL == <<"a","@","b",".","c","o">>
LINE_PHONE == <<"5","5","5","-","1","2","3","-","4","5","6","7">>
LINE_PHONE7 == <<"5","5","5","-","1","2","3","4">>
LINE_WORD == <<"M">>
LineCorpus == {LINE_NAME, LINE_COMPANY, LINE_EMAIL, LINE_PHONE, LINE_PHONE7,
               LINE_WORD}

\* "John Doe\nAcme Corp\njohn@acme.com\n555-123-4567"
TEXT_JOHN_DOE ==
    <<"J","o","h","n"," ","D","o","e","\n","A","c","m","e"," ","C","o","r","p","\n","j","o","h",
      "n","@","a","c","m","e",".","c","o","m","\n","5","5","5","-","1","2","3","-","4","5","6","7">>
\* "a@b.com\n555-1234"
TEXT_NO_CANDIDATES ==
    <<"a","@","b",".","c","o","m","\n","5","5","5","-","1","2","3","4">>
\* " \n\f"
TEXT_BLANK == <<" ", "\n", "\f">>
\* "jane@x.com\nJane Smith\nWidgets Inc"
TEXT_JANE ==
    <<"j","a","n","e","@","x",".","c","o","m","\n","J","a","n","e"," ","S","m","i","t",
      "h","\n","W","i","d","g",
      "e","t","s"," ","I","n","c">>
\* "M\nM\nM\nM\nM\nJ D": the sixth line is the first with two words
TEXT_SIX == <<"M","\n","M","\n","M","\n","M","\n","M","\n","J"," ","D">>
\* "M\nM\nM\nM\nM\nM\nJ D": the seventh line is the first with two words
TEXT_SEVEN == <<"M","\n","M","\n","M","\n","M","\n","M","\n","M","\n","J"," ","D">>
\* "c@d.io\na@b.co"
TEXT_TWO_EMAILS == <<"c","@","d",".","i","o","\n","a","@","b",".","c","o">>
NamedTexts == {TEXT_JOHN_DOE, TEXT_NO_CANDIDATES, TEXT_BLANK, TEXT_JANE, TEXT_SIX,
               TEXT_SEVEN, TEXT_TWO_EMAILS}

(* the texts of at most n lines of the corpus *)
TextsOfLines(n) ==
    {join(NL, ls) : ls \in UNION {[1..k -> LineCorpus] : k \in 0..n}}
ParseInputs == TextsOfLines(MaxLines) \cup NamedTexts

ScorerIdle ==
    /\ entry = "none"
    /\ mime = "none"
    /\ pc = "idle"
    /\ opened = "none"
    /\ prep = 0
    /\ i = 0
    /\ best_result = <<>>
    /\ best_score = 0
    /\ ocr_text = Raises
    /\ score = 0
    /\ tried = <<>>
    /\ scored = <<>>
    /\ result = None
    /\ raised = FALSE

InitParse ==
    /\ ScorerIdle
    /\ text \in ParseInputs
    /\ parser = "none"
    /\ record = EmptyDict
    /\ EntryIdle
    /\ SplitIdle
    /\ UploadIdle
    /\ InboxIdle

ParseScanner ==
    /\ parser = "none"
    /\ parser' = "business_card_scanner"
    /\ record' = parse(text)
    /\ UNCHANGED <<text, scorerVars, inboxVars, entryVars, splitVars, uploadVars>>

ParseApp ==
    /\ parser = "none"
    /\ parser' = "app"
    /\ record' = parse_contact_info_app(text)
    /\ UNCHANGED <<text, scorerVars, inboxVars, entryVars, splitVars, uploadVars>>

ParseWeb ==
    /\ parser = "none"
    /\ parser' = "web_app"
    /\ record' = parse_contact_info(text)
    /\ UNCHANGED <<text, scorerVars, inboxVars, entryVars, splitVars, uploadVars>>

ParseEmail ==
    /\ parser = "none"
    /\ parser' = "email_processor"
    /\ record' = parse_contact_info(text)
    /\ UNCHANGED <<text, scorerVars, inboxVars, entryVars, splitVars, uploadVars>>

NextParse ==
    \/ ParseScanner
    \/ ParseApp
    \/ ParseWeb
    \/ ParseEmail

SpecParse == InitParse /\ [][NextParse]_vars

(***************************************************************************)
(* Properties of the Contact Extractor                                     *)
(***************************************************************************)
Parsed == parser # "none"
(* dict.get *)
Get(r, f) == IF f \in DOMAIN r THEN r[f] ELSE None
TextLines == StrippedLines(SplitOn(text, LineBreak))
LineHasContact(ln) ==
    IF parser = "app"
    THEN HasContact(EMAIL_PATTERN, PHONE_PATTERN, WEBSITE_PATTERN, ln)
    ELSE HasContact(EMAIL_RE, PHONE_RE, WEB_RE, ln)

(* C8: the card "John Doe\nAcme Corp\njohn@acme.com\n555-123-4567" (name,   *)
(* company, email and phone lines, no website line) parses to that name,   *)
(* company, email and phone, and website None.                             *)
C8_FourLineCard ==
    (Parsed /\ text = TEXT_JOHN_DOE) =>
        /\ Get(record, "name") = Some(<<"J","o","h","n"," ","D","o","e">>)
        /\ Get(record, "company") = Some(<<"A","c","m","e"," ","C","o","r","p">>)
        /\ Get(record, "email") = Some(<<"j","o","h","n","@","a","c","m","e",".","c","o","m">>)
        /\ Get(record, "phone") = Some(<<"5","5","5","-","1","2","3","-","4","5","6","7">>)
        /\ Get(record, "website") = None

(* C9: parse("") returns a record in which name, company, email, phone and *)
(* website are all present and None, in every copy.                        *)
C9_EmptyInput ==
    (Parsed /\ text = <<>>) =>
        /\ FiveFields \subseteq DOMAIN record
        /\ \A f \in FiveFields : record[f] = None

(* C10: when every line contains a contact pattern or has fewer than 2     *)
(* tokens, name and company are None while email and phone are populated;  *)
(* "a@b.com\n555-1234" gives email "a@b.com" and a phone.                  *)
C10_NoCandidates ==
    Parsed =>
        /\ (\A k \in 1..Len(TextLines) :
               LineHasContact(TextLines[k]) \/ Len(split(TextLines[k])) < 2) =>
                   Get(record, "name") = None /\ Get(record, "company") = None
        /\ text = TEXT_NO_CANDIDATES =>
               /\ Get(record, "email") = Some(<<"a","@","b",".","c","o","m">>)
               /\ Get(record, "phone") # None

(* the lines, the scan limit and the searched text of the copy that ran *)
ParserLines ==
    IF parser = "app" THEN StrippedLines(split_nl(text)) ELSE TextLines
ParserLimit == IF parser = "app" THEN ScanLimitApp ELSE ScanLimit
ParserBlock == IF parser = "app" THEN text ELSE join(NL, TextLines)
ParserPattern(f) ==
    CASE f = "email" -> IF parser = "app" THEN EMAIL_PATTERN ELSE EMAIL_RE
      [] f = "phone" -> IF parser = "app" THEN PHONE_PATTERN ELSE PHONE_RE
      [] f = "website" -> IF parser = "app" THEN WEBSITE_PATTERN ELSE WEB_RE
Qualifies(ln) == ~LineHasContact(ln) /\ Len(split(ln)) >= 2
IsNonContact(ln) == ~LineHasContact(ln)

(* C11: among the scanned lines the candidates are the lines without an    *)
(* email, phone or website match and with at least 2 tokens; name is the   *)
(* first candidate and company the second, None when there is none;        *)
(* "jane@x.com\nJane Smith\nWidgets Inc" gives "Jane Smith", "Widgets Inc". *)
C11_NameCompanySelection ==
    Parsed =>
        LET cands == SelectSeq(Take(ParserLines, ParserLimit), Qualifies)
        IN  /\ Get(record, "name") =
                   (IF Len(cands) >= 1 THEN Some(cands[1]) ELSE None)
            /\ Get(record, "company") =
                   (IF Len(cands) >= 2 THEN Some(cands[2]) ELSE None)
            /\ text = TEXT_JANE =>
                   /\ Get(record, "name") = Some(<<"J","a","n","e"," ","S","m","i","t","h">>)
                   /\ Get(record, "company") = Some(<<"W","i","d","g","e","t","s"," ","I","n","c">>)

(* C11 witness: the folder job has parsed the card whose email line comes  *)
(* first, and the name is the second line.                                 *)
C11_Witness ==
    /\ parser = "business_card_scanner"
    /\ text = TEXT_JANE
    /\ record.name = Some(<<"J","a","n","e"," ","S","m","i","t","h">>)
    /\ record.company = Some(<<"W","i","d","g","e","t","s"," ","I","n","c">>)

(* C12: the scan covers exactly the first 6 lines in every copy: a         *)
(* qualifying sixth line becomes the name, a qualifying seventh line does  *)
(* not.                                                                    *)
C12_ScanSixLines ==
    Parsed =>
        /\ text = TEXT_SIX => Get(record, "name") = Some(LINE_NAME)
        /\ text = TEXT_SEVEN => Get(record, "name") = None

(* C13 as stated: a text with an email and fewer than 2 non-contact lines  *)
(* has name None, company None and an email.                               *)
C13_FewNonContactLines ==
    (/\ Parsed
     /\ \E k \in 1..Len(TextLines) : TextLines[k] = LINE_EMAIL
     /\ Len(SelectSeq(TextLines, IsNonContact)) < 2) =>
        /\ Get(record, "name") = None
        /\ Get(record, "company") = None
        /\ Get(record, "email") # None

(* C13 amended: a text with an email and fewer than 2 non-contact lines    *)
(* has company None and an email, and name None when no non-contact line   *)
(* has at least 2 tokens.                                                  *)
C13_FewNonContactLinesAmended ==
    (/\ Parsed
     /\ \E k \in 1..Len(TextLines) : TextLines[k] = LINE_EMAIL
     /\ Len(SelectSeq(TextLines, IsNonContact)) < 2) =>
        /\ Get(record, "company") = None
        /\ Get(record, "email") # None
        /\ SelectSeq(TextLines, Qualifies) = <<>> => Get(record, "name") = None

(* C13 witness: an email line and one single-word line: no name, no        *)
(* company, the email.                                                     *)
C13_Witness ==
    /\ parser = "web_app"
    /\ text = join(NL, <<LINE_WORD, LINE_EMAIL>>)
    /\ record.name = None
    /\ record.company = None
    /\ record.email = Some(LINE_EMAIL)

(* C14: each of email, phone and website is a match of its pattern that    *)
(* starts at the first position of the searched text where the pattern     *)
(* matches, and None when it matches nowhere; of two emails the first is   *)
(* kept.                                                                   *)
C14_FirstMatch ==
    Parsed =>
        /\ \A f \in {"email", "phone", "website"} :
              LET S == ParserBlock
                  P == ParserPattern(f)
                  starts == {a \in 1..(Len(S) + 1) : Ends(P, S, a) # <<>>}
              IN  IF starts = {} THEN Get(record, f) = None
                  ELSE LET a0 == CHOOSE a \in starts : \A b \in starts : a <= b
                           es == Ends(P, S, a0)
                       IN  \E k \in 1..Len(es) :
                               Get(record, f) = Some(SubSeq(S, a0, es[k] - 1))
        /\ text = TEXT_TWO_EMAILS => Get(record, "email") = Some(<<"c","@","d",".","i","o">>)

(* C14 witness: a text with two emails has been parsed and the first one   *)
(* is the email of the record.                                             *)
C14_Witness ==
    /\ parser = "email_processor"
    /\ text = TEXT_TWO_EMAILS
    /\ record.email = Some(<<"c","@","d",".","i","o">>)

(* C20: every copy returns the name, company, email, phone and website     *)
(* that parse of business_card_scanner.py returns for the same text.       *)
C20_CopiesAgree ==
    Parsed => \A f \in FiveFields : Get(record, f) = parse(text)[f]

(***************************************************************************)
(* The name split of the entry points                                      *)
(*   business_card_scanner.py main 207-217, app.py upload_file 238-247,    *)
(*   web_app.py upload_file 182-188, email_processor.py 214-220            *)
(***************************************************************************)
(* "not x" of an optional text *)
Falsy(o) == o = None \/ o = Some(<<>>)

(* x or "" *)
OrEmpty(o) == IF Falsy(o) THEN <<>> ELSE o[1]

(* fname, lname = parts[0], parts[1] *)
SplitNameSecondOnly(nm, unset) ==
    IF Falsy(nm) THEN [fname |-> unset, lname |-> unset]
    ELSE LET parts == split(nm[1])
         IN  IF Len(parts) >= 2
             THEN [fname |-> Some(parts[1]), lname |-> Some(parts[2])]
             ELSE [fname |-> Some(parts[1]), lname |-> unset]

(* if name: parts = name.split(); if len(parts) >= 2: fname, lname =       *)
(* parts[0], " ".join(parts[1:]) else: fname = parts[0]; unset is the      *)
(* value both variables have before: None in business_card_scanner.py, ""  *)
(* in the other copies                                                     *)
SplitName(nm, unset) ==
    IF Falsy(nm) THEN [fname |-> unset, lname |-> unset]
    ELSE LET parts == split(nm[1])
         IN  IF Len(parts) >= 2
             THEN [fname |-> Some(parts[1]),
                   lname |-> Some(join(<<" ">>, Tail(parts)))]
             ELSE [fname |-> Some(parts[1]), lname |-> unset]

(* "FNAME": fname or "", "LNAME": lname or "" *)
MergeNames(fl) == [FNAME |-> OrEmpty(fl.fname), LNAME |-> OrEmpty(fl.lname)]

MaxTokens == 3
TOKEN_J == <<"J">>
TOKEN_D == <<"D">>
TOKEN_MC == <<"M","c">>
NameTokens == {TOKEN_J, TOKEN_D, TOKEN_MC}
NameSeparators == {<<" ">>, <<" ", " ">>, <<"\t">>}
TokenSeqs == UNION {[1..n -> NameTokens] : n \in 1..MaxTokens}
(* the names: stripped lines of 1..MaxTokens tokens, as parse returns them *)
Names == {join(sep, ts) : sep \in NameSeparators, ts \in TokenSeqs}

InitSplit ==
    /\ ScorerIdle
    /\ ParseIdle
    /\ EntryIdle
    /\ UploadIdle
    /\ InboxIdle
    /\ name \in {None} \cup {Some(n) : n \in Names}
    /\ splitter = "none"
    /\ merge = EmptyDict

SplitScanner ==
    /\ splitter = "none"
    /\ splitter' = "business_card_scanner"
    /\ merge' = MergeNames(SplitName(name, None))
    /\ UNCHANGED <<name, scorerVars, inboxVars, parseVars, entryVars, uploadVars>>

SplitApp ==
    /\ splitter = "none"
    /\ splitter' = "app"
    /\ merge' = MergeNames(SplitName(name, Some(<<>>)))
    /\ UNCHANGED <<name, scorerVars, inboxVars, parseVars, entryVars, uploadVars>>

SplitWeb ==
    /\ splitter = "none"
    /\ splitter' = "web_app"
    /\ merge' = MergeNames(SplitName(name, Some(<<>>)))
    /\ UNCHANGED <<name, scorerVars, inboxVars, parseVars, entryVars, uploadVars>>

SplitEmail ==
    /\ splitter = "none"
    /\ splitter' = "email_processor"
    /\ merge' = MergeNames(SplitName(name, Some(<<>>)))
    /\ UNCHANGED <<name, scorerVars, inboxVars, parseVars, entryVars, uploadVars>>

NextSplit ==
    \/ SplitScanner
    \/ SplitApp
    \/ SplitWeb
    \/ SplitEmail

SpecSplit == InitSplit /\ [][NextSplit]_vars

(* the characters of s before its first whitespace character *)
RECURSIVE FirstWord(_)
FirstWord(s) ==
    IF s = <<>> \/ Head(s) \in Space THEN <<>>
    ELSE <<Head(s)>> \o FirstWord(Tail(s))

(* s with every run of whitespace replaced by one space *)
RECURSIVE SingleSpaced(_)
SingleSpaced(s) ==
    IF s = <<>> THEN <<>>
    ELSE IF Head(s) \in Space
         THEN <<" ">> \o SingleSpaced(lstrip(s))
         ELSE <<Head(s)>> \o SingleSpaced(Tail(s))

HasSpace(s) == \E k \in 1..Len(s) : s[k] \in Space

(* C18: a present name is split on whitespace: the first name is the       *)
(* name up to its first whitespace, the last name is the rest of the name  *)
(* with its tokens separated by one space, and a name of one token gives   *)
(* that token as the first name and an empty last name.                    *)
C18_NameSplit ==
    (splitter # "none" /\ ~Falsy(name)) =>
        LET nm == name[1]
            rest == SubSeq(nm, Len(FirstWord(nm)) + 1, Len(nm))
        IN  /\ merge.FNAME = FirstWord(nm)
            /\ merge.LNAME = SingleSpaced(lstrip(rest))
            /\ ~HasSpace(nm) => (merge.FNAME = nm /\ merge.LNAME = <<>>)

C18_Witness ==
    /\ splitter = "business_card_scanner"
    /\ name = Some(join(<<" ", " ">>, <<TOKEN_J, TOKEN_D, TOKEN_MC>>))
    /\ merge.FNAME = TOKEN_J
    /\ merge.LNAME = join(<<" ">>, <<TOKEN_D, TOKEN_MC>>)

(***************************************************************************)
(* The mailing-list upsert                                                 *)
(*   business_card_scanner.py mc_upsert 145-170, app.py add_to_mailchimp   *)
(*   133-190, web_app.py 105-141, email_processor.py 118-156               *)
(***************************************************************************)
UpperLetters == <<"A","B","C","D","E","F","G","H","I","J","K","L","M",
                  "N","O","P","Q","R","S","T","U","V","W","X","Y","Z">>
LowerLetters == <<"a","b","c","d","e","f","g","h","i","j","k","l","m",
                  "n","o","p","q","r","s","t","u","v","w","x","y","z">>

(* str.lower() *)
lower(s) ==
    [k \in 1..Len(s) |->
        IF s[k] \in Upper
        THEN LowerLetters[CHOOSE n \in 1..Len(UpperLetters) : UpperLetters[n] = s[k]]
        ELSE s[k]]

(* hashlib.md5(b).hexdigest(): the digest stands for the bytes it was      *)
(* computed from, so that two digests are equal only for equal input       *)
Md5(b) == <<"md5", b>>

(* the responses of requests.put / requests.post: a status code, or an     *)
(* exception (connection error, timeout)                                   *)
Response(code) == [raised |-> FALSE, status_code |-> code]
RequestException == [raised |-> TRUE, status_code |-> 0]
PutOutcomes == {Response(200), Response(201), Response(400), RequestException}
PostOutcomes == {Response(200), RequestException}

(* if not email: return False, ... *)
MissingEmailNever(email) == FALSE
MissingEmail(email) == Falsy(email)

(* hashlib.md5(email.encode()).hexdigest(), without lower() *)
MemberHashAsIs(email) == Md5(email)
(* mhash = hashlib.md5(email.lower().encode()).hexdigest() *)
MemberHash(email) == Md5([k \in DOMAIN email |-> lower(email[k])])

(* "email_address": email.lower() *)
EmailAddress(email) == [k \in DOMAIN email |-> lower(email[k])]

(* the PUT request: url .../members/{mhash} and the json payload *)
PutRequest(email, names, rec) ==
    [method |-> "PUT",
     member |-> MemberHash(email),
     email_address |-> EmailAddress(email),
     merge_fields |-> [FNAME |-> names.FNAME,
                       LNAME |-> names.LNAME,
                       COMPANY |-> OrEmpty(Get(rec, "company")),
                       PHONE |-> OrEmpty(Get(rec, "phone")),
                       WEBSITE |-> OrEmpty(Get(rec, "website"))]]

(* the POST request: url .../members/{mhash}/tags *)
TagRequest(email) ==
    [method |-> "POST", member |-> MemberHash(email)]

(* ok = any answer *)
OkAnyStatus(r) == ~r.raised
(* ok = r.status_code in (200, 201) *)
Ok(r) == ~r.raised /\ r.status_code \in {200, 201}

(* mc_upsert, and add_to_mailchimp of web_app.py and email_processor.py:   *)
(* the requests sent, the value of ok, whether an exception leaves the     *)
(* function, whether the tag request raised (the "except Exception: pass"  *)
(* drops it).  tag: MAILCHIMP_TAG is set; put, post: what the requests do  *)
mc_upsert(email, names, rec, tag, put, post) ==
    IF MissingEmail(email)
    THEN [sent |-> <<>>, ok |-> FALSE, raised |-> FALSE, tag_failed |-> FALSE]
    ELSE IF put.raised
    THEN [sent |-> <<PutRequest(email, names, rec)>>, ok |-> FALSE,
          raised |-> TRUE, tag_failed |-> FALSE]
    ELSE IF Ok(put) /\ tag
    THEN [sent |-> <<PutRequest(email, names, rec), TagRequest(email)>>,
          ok |-> TRUE, raised |-> FALSE, tag_failed |-> post.raised]
    ELSE [sent |-> <<PutRequest(email, names, rec)>>, ok |-> Ok(put),
          raised |-> FALSE, tag_failed |-> FALSE]

(* add_to_mailchimp of app.py: the configuration check, and the PUT inside *)
(* try / except Exception: return False                                    *)
add_to_mailchimp(email, names, rec, configured, tag, put, post) ==
    IF MissingEmail(email) \/ ~configured
    THEN [sent |-> <<>>, ok |-> FALSE, raised |-> FALSE, tag_failed |-> FALSE]
    ELSE LET r == mc_upsert(email, names, rec, tag, put, post)
         IN  [sent |-> r.sent, ok |-> r.ok, raised |-> FALSE,
              tag_failed |-> r.tag_failed]

(***************************************************************************)
(* The entry points: what each does with one image after the other         *)
(*   business_card_scanner.py main 190-231       (the files of the folder) *)
(*   app.py upload_file 197-281                  (one request per image)   *)
(*   web_app.py upload_file 147-219              (one request per image)   *)
(*   email_processor.py process_email_message 183-235 (the attachments of  *)
(*                                                a message)               *)
(***************************************************************************)
MaxImages == 2

TEXT_SPACES == <<" ", "\n">>
TEXT_LOWER == <<"J"," ","D","\n","a","@","b",".","c","o">>
TEXT_UPPER == <<"J"," ","D","\n","A","@","B",".","c","o">>
TEXT_NO_EMAIL == <<"J"," ","D","\n","A"," ","C">>

(* the images, named after what is on them, and the text the Variant       *)
(* Scorer returns for each                                                 *)
Cards == {"unreadable", "spaces", "lower", "upper", "noemail"}
TextOn(c) ==
    CASE c = "unreadable" -> <<>>
      [] c = "spaces" -> TEXT_SPACES
      [] c = "lower" -> TEXT_LOWER
      [] c = "upper" -> TEXT_UPPER
      [] c = "noemail" -> TEXT_NO_EMAIL

UploadEndpoints == {"app", "web_app"}

(* filepath = os.path.join(UPLOAD_FOLDER, secure_filename(file.filename)): *)
(* here every upload comes under the same file name                        *)
FILE_NAME == "card.jpg"

(* file.save(filepath) *)
Save(files, path, image) ==
    [f \in DOMAIN files \cup {path} |-> IF f = path THEN image ELSE files[f]]

(* the file is left where it is *)
RemoveNothing(files, path) == files
(* if os.path.exists(filepath): os.remove(filepath) *)
Remove(files, path) == [f \in DOMAIN files \ {path} |-> files[f]]

(* if not text: (without strip()) *)
IsBlankNoStrip(t) == t = <<>>
(* if not text.strip(): *)
IsBlank(t) == strip(t) = <<>>

(* a Contact Extractor that keeps state between calls: it returns the name *)
(* only the first time it runs                                             *)
ParseOfRemembering(e, t) ==
    LET r == CASE e = "business_card_scanner" -> parse(t)
               [] e = "app" -> parse_contact_info_app(t)
               [] e = "web_app" -> parse_contact_info(t)
               [] e = "email_processor" -> parse_contact_info(t)
    IN  IF log = <<>> THEN r ELSE [r EXCEPT !.name = None]

(* the Contact Extractor of entry point e *)
ParseOf(e, t) ==
    CASE e = "business_card_scanner" -> parse(t)
      [] e = "app" -> parse_contact_info_app(t)
      [] e = "web_app" -> parse_contact_info(t)
      [] e = "email_processor" -> parse_contact_info(t)

(* the value fname and lname have before the split *)
Unset(e) == IF e = "business_card_scanner" THEN None ELSE Some(<<>>)

(* the upsert function was not called; no request was answered *)
NotCalled == [sent |-> <<>>, ok |-> FALSE, raised |-> FALSE, tag_failed |-> FALSE]
NoResponse == [raised |-> FALSE, status_code |-> 0]

(* what the entry point does for an image: the text and record it got, the *)
(* requests sent, how the PUT was answered, whether the tag request        *)
(* raised, and what it reports                                             *)
LogEntry(parsed, u, put, outcome) ==
    [card |-> card, text |-> text, parsed |-> parsed, record |-> record,
     sent |-> u.sent, put |-> IF u.sent = <<>> THEN NoResponse ELSE put,
     tag_failed |-> u.tag_failed, outcome |-> outcome]

(* the finally clause of the upload endpoints *)
CleanUp ==
    uploads' = IF ep \in UploadEndpoints THEN Remove(uploads, FILE_NAME)
               ELSE uploads

InitEntry ==
    /\ ScorerIdle
    /\ SplitIdle
    /\ UploadIdle
    /\ InboxIdle
    /\ ep \in Entries
    /\ epc = "next"
    /\ card = "none"
    /\ uploads = NoFiles
    /\ log = <<>>
    /\ text = <<>>
    /\ parser = "none"
    /\ record = EmptyDict

(* the next image arrives, is saved (upload endpoints), and is given to    *)
(* the Variant Scorer                                                      *)
Receive ==
    /\ epc = "next"
    /\ Len(log) < MaxImages
    /\ \E c \in Cards :
          /\ card' = c
          /\ uploads' = IF ep \in UploadEndpoints
                        THEN Save(uploads, FILE_NAME, c) ELSE uploads
          /\ text' = TextOn(c)
    /\ parser' = "none"
    /\ record' = EmptyDict
    /\ epc' = "extracted"
    /\ UNCHANGED <<ep, log, scorerVars, inboxVars, splitVars, uploadVars>>

(* if not text.strip(): log / return 400 "Could not extract text" *)
NoText ==
    /\ epc = "extracted"
    /\ IsBlank(text)
    /\ log' = Append(log, LogEntry(FALSE, NotCalled, NoResponse, "no_text"))
    /\ CleanUp
    /\ epc' = "next"
    /\ UNCHANGED <<ep, card, text, parser, record, scorerVars, inboxVars, splitVars,
                   uploadVars>>

(* contact = parse_contact_info(text) *)
ParseText ==
    /\ epc = "extracted"
    /\ ~IsBlank(text)
    /\ record' = ParseOf(ep, text)
    /\ parser' = ep
    /\ epc' = "parsed"
    /\ UNCHANGED <<ep, card, text, uploads, log, scorerVars, inboxVars, splitVars,
                   uploadVars>>

(* if not email: log / return 400 "No email address found" *)
NoEmail ==
    /\ epc = "parsed"
    /\ MissingEmail(Get(record, "email"))
    /\ log' = Append(log, LogEntry(TRUE, NotCalled, NoResponse, "no_email"))
    /\ CleanUp
    /\ epc' = "next"
    /\ UNCHANGED <<ep, card, text, parser, record, scorerVars, inboxVars, splitVars,
                   uploadVars>>

(* the name split, the upsert and the report of its result; an exception   *)
(* of the PUT ends main and process_email_message, and is answered with    *)
(* 500 by web_app.py                                                       *)
Upsert ==
    /\ epc = "parsed"
    /\ ~MissingEmail(Get(record, "email"))
    /\ \E configured, tag \in BOOLEAN, put \in PutOutcomes, post \in PostOutcomes :
          LET email == Get(record, "email")
              names == MergeNames(SplitName(Get(record, "name"), Unset(ep)))
              r == IF ep = "app"
                   THEN add_to_mailchimp(email, names, record, configured,
                                         tag, put, post)
                   ELSE mc_upsert(email, names, record, tag, put, post)
              outcome == IF r.raised THEN "error"
                         ELSE IF r.ok THEN "added" ELSE "failed"
          IN  /\ log' = Append(log, LogEntry(TRUE, r, put, outcome))
              /\ epc' = IF r.raised /\ ep \notin UploadEndpoints
                        THEN "stopped" ELSE "next"
    /\ CleanUp
    /\ UNCHANGED <<ep, card, text, parser, record, scorerVars, inboxVars, splitVars,
                   uploadVars>>

NextEntry ==
    \/ Receive
    \/ NoText
    \/ ParseText
    \/ NoEmail
    \/ Upsert

SpecEntry == InitEntry /\ [][NextEntry]_vars

(***************************************************************************)
(* Properties of the entry points                                          *)
(***************************************************************************)
Puts(k) == SelectSeq(log[k].sent, LAMBDA m : m.method = "PUT")
OnlySpace(t) == \A k \in 1..Len(t) : t[k] \in Space

(* C15: in every entry point no upsert request is sent for an image whose  *)
(* contact record has no email (None or empty), nor for an image that was  *)
(* not parsed.                                                             *)
C15_NoUpsertWithoutEmail ==
    \A k \in 1..Len(log) :
        (Get(log[k].record, "email") \in {None, Some(<<>>)}) =>
            log[k].sent = <<>>

C15_Witness ==
    \E k \in 1..Len(log) :
        /\ log[k].card = "noemail"
        /\ log[k].parsed
        /\ log[k].record.email = None
        /\ log[k].outcome = "no_email"
        /\ log[k].sent = <<>>

(* C16: when the Variant Scorer returns empty or whitespace-only text, the *)
(* entry point reports that no text was extracted, and calls neither the   *)
(* Contact Extractor nor the upsert for that image.                        *)
C16_NoTextReported ==
    /\ \A k \in 1..Len(log) :
          OnlySpace(log[k].text) =>
              /\ log[k].outcome = "no_text"
              /\ ~log[k].parsed
              /\ log[k].sent = <<>>
    /\ (ep # "none" /\ OnlySpace(text)) => (parser = "none" /\ epc # "parsed")

C16_Witness ==
    \E k \in 1..Len(log) :
        /\ log[k].text = TEXT_SPACES
        /\ log[k].outcome = "no_text"
        /\ ~log[k].parsed

(* a and b differ at most in the case of their letters *)
SameButCase(a, b) ==
    /\ Len(a) = Len(b)
    /\ \A k \in 1..Len(a) :
          \/ a[k] = b[k]
          \/ \E n \in 1..Len(UpperLetters) :
                {a[k], b[k]} = {UpperLetters[n], LowerLetters[n]}

(* C17: two upsert requests for extracted emails that differ only in       *)
(* letter case carry the same member hash and the same email_address, and  *)
(* the address has no upper-case letter.                                   *)
C17_KeyFromLowercasedEmail ==
    \A j, k \in 1..Len(log) :
        (/\ Puts(j) # <<>>
         /\ Puts(k) # <<>>
         /\ SameButCase(log[j].record.email[1], log[k].record.email[1])) =>
            /\ Puts(j)[1].member = Puts(k)[1].member
            /\ Puts(j)[1].email_address = Puts(k)[1].email_address
            /\ \A n \in 1..Len(Puts(k)[1].email_address[1]) :
                  Puts(k)[1].email_address[1][n] \notin Upper

C17_Witness ==
    \E j, k \in 1..Len(log) :
        /\ log[j].card = "upper"
        /\ log[k].card = "lower"
        /\ Puts(j) # <<>>
        /\ Puts(k) # <<>>
        /\ log[j].record.email # log[k].record.email
        /\ Puts(j)[1].member = Puts(k)[1].member

(***************************************************************************)
(* Two upload requests served at the same time by one upload endpoint      *)
(* (app.run serves each request in a thread of its own)                    *)
(*   app.py upload_file 197-281, web_app.py upload_file 147-219            *)
(***************************************************************************)
Requests == {"r1", "r2"}
FileNames == {FILE_NAME, "scan.jpg"}
UploadCards == {"lower", "noemail"}

(* extract_text_from_image(filepath) / ocr_image_with_rotation(filepath):  *)
(* the text of the image now stored under the path; "" when Image.open     *)
(* raises because there is no such file                                    *)
ExtractFrom(files, path) ==
    IF path \in DOMAIN files THEN TextOn(files[path]) ELSE <<>>

InitUpload ==
    /\ ScorerIdle
    /\ InboxIdle
    /\ ParseIdle
    /\ SplitIdle
    /\ ep \in UploadEndpoints
    /\ epc = "serving"
    /\ card = "none"
    /\ uploads = NoFiles
    /\ log = <<>>
    /\ req \in [Requests -> [pc : {"start"}, image : UploadCards,
                             filename : FileNames, text : {<<>>},
                             record : {EmptyDict}, outcome : {"none"}]]

(* filepath = ...; file.save(filepath) *)
SaveUpload(r) ==
    /\ req[r].pc = "start"
    /\ uploads' = Save(uploads, req[r].filename, req[r].image)
    /\ req' = [req EXCEPT ![r].pc = "saved"]
    /\ UNCHANGED <<ep, epc, card, log, scorerVars, inboxVars, parseVars, splitVars>>

(* text = extract_text_from_image(filepath) *)
ExtractUpload(r) ==
    /\ req[r].pc = "saved"
    /\ req' = [req EXCEPT ![r].pc = "extracted",
                          ![r].text = ExtractFrom(uploads, req[r].filename)]
    /\ UNCHANGED <<ep, epc, card, uploads, log, scorerVars, inboxVars, parseVars,
                   splitVars>>

(* if not text.strip(): return ... 400; contact = parse_contact_info(text) *)
ParseUpload(r) ==
    /\ req[r].pc = "extracted"
    /\ IF IsBlank(req[r].text)
       THEN req' = [req EXCEPT ![r].pc = "responded",
                               ![r].outcome = "no_text"]
       ELSE req' = [req EXCEPT ![r].pc = "parsed",
                               ![r].record = ParseOf(ep, req[r].text)]
    /\ UNCHANGED <<ep, epc, card, uploads, log, scorerVars, inboxVars, parseVars,
                   splitVars>>

(* the email check, the name split, the upsert: the response is chosen     *)
RespondUpload(r) ==
    /\ req[r].pc = "parsed"
    /\ LET rec == req[r].record
           email == Get(rec, "email")
       IN  IF MissingEmail(email)
           THEN req' = [req EXCEPT ![r].pc = "responded",
                                   ![r].outcome = "no_email"]
           ELSE \E configured \in BOOLEAN, put \in PutOutcomes :
                   LET names == MergeNames(SplitName(Get(rec, "name"),
                                                     Unset(ep)))
                       u == IF ep = "app"
                            THEN add_to_mailchimp(email, names, rec,
                                     configured, FALSE, put, put)
                            ELSE mc_upsert(email, names, rec, FALSE,
                                           put, put)
                   IN  req' = [req EXCEPT
                           ![r].pc = "responded",
                           ![r].outcome = IF u.raised THEN "error"
                                          ELSE IF u.ok THEN "added"
                                          ELSE "failed"]
    /\ UNCHANGED <<ep, epc, card, uploads, log, scorerVars, inboxVars, parseVars,
                   splitVars>>

(* finally: if os.path.exists(filepath): *)
ExistsUpload(r) ==
    /\ req[r].pc = "responded"
    /\ req' = [req EXCEPT ![r].pc = IF req[r].filename \in DOMAIN uploads
                                    THEN "removing" ELSE "done"]
    /\ UNCHANGED <<ep, epc, card, uploads, log, scorerVars, inboxVars, parseVars,
                   splitVars>>

(* os.remove(filepath): FileNotFoundError when the file has gone since,    *)
(* and the request is answered with 500                                    *)
RemoveUpload(r) ==
    /\ req[r].pc = "removing"
    /\ uploads' = Remove(uploads, req[r].filename)
    /\ req' = [req EXCEPT ![r].pc = "done",
                          ![r].outcome = IF req[r].filename \in DOMAIN uploads
                                         THEN req[r].outcome ELSE "error"]
    /\ UNCHANGED <<ep, epc, card, log, scorerVars, inboxVars, parseVars, splitVars>>

NextUpload ==
    \/ \E r \in Requests : SaveUpload(r)
    \/ \E r \in Requests : ExtractUpload(r)
    \/ \E r \in Requests : ParseUpload(r)
    \/ \E r \in Requests : RespondUpload(r)
    \/ \E r \in Requests : ExistsUpload(r)
    \/ \E r \in Requests : RemoveUpload(r)

SpecUpload == InitUpload /\ [][NextUpload]_vars

Extracted(r) == req[r].pc \notin {"start", "saved"}
HasRecord(r) == Extracted(r) /\ req[r].pc # "extracted" /\ req[r].outcome # "no_text"

(* C19: under every interleaving of two upload requests, the same file     *)
(* name included, the text a request extracts is the text of its own image *)
(* and its contact record is the record of that text.                      *)
C19_RunsDoNotInterfere ==
    \A r \in DOMAIN req :
        /\ Extracted(r) => req[r].text = TextOn(req[r].image)
        /\ HasRecord(r) => req[r].record = ParseOf(ep, TextOn(req[r].image))

(***************************************************************************)
(* Further properties of the entry points                                  *)
(***************************************************************************)
(* the step in which the entry point calls the Contact Extractor *)
ParseStep == epc = "extracted" /\ epc' = "parsed"

C22_TagAfterUpsert ==
    \A k \in 1..Len(log) :
        /\ \A n \in 1..Len(log[k].sent) :
              log[k].sent[n].method = "POST" =>
                  /\ \E m \in 1..(n - 1) :
                        /\ log[k].sent[m].method = "PUT"
                        /\ log[k].sent[m].member = log[k].sent[n].member
                  /\ ~log[k].put.raised
                  /\ log[k].put.status_code \in {200, 201}
        /\ log[k].tag_failed => log[k].outcome = "added"

C22_Witness ==
    \E k \in 1..Len(log) :
        /\ log[k].tag_failed
        /\ Len(log[k].sent) = 2
        /\ log[k].sent[2].method = "POST"
        /\ log[k].put.status_code = 201
        /\ log[k].outcome = "added"

Outcomes == {log[k].outcome : k \in 1..Len(log)}

(* C23: when an upload request has been answered, whatever the outcome (no *)
(* text, no email, upsert success, upsert failure, exception), the file it *)
(* saved is no longer in the upload folder.                                *)
C23_UploadCleanup ==
    (ep \in UploadEndpoints /\ epc \in {"next", "stopped"}) =>
        uploads = NoFiles

C23_Witness ==
    /\ ep = "web_app"
    /\ epc = "next"
    /\ Outcomes = {"error", "no_text"}
    /\ uploads = NoFiles

(***************************************************************************)
(* The names the Contact Extractor returns, as the name split sees them    *)
(***************************************************************************)
(* the name split of the copy that parsed, applied to its record *)
NamesOfRecord == MergeNames(SplitName(Get(record, "name"), Unset(parser)))

(* C24: a name returned by the Contact Extractor has at least 2            *)
(* whitespace-separated tokens, so the name split of the caller takes the  *)
(* branch for 2 or more tokens and gives a non-empty first name and a      *)
(* non-empty last name.                                                    *)
C24_NameHasTwoTokens ==
    (Parsed /\ Get(record, "name") # None) =>
        /\ Len(split(record.name[1])) >= 2
        /\ NamesOfRecord.FNAME # <<>>
        /\ NamesOfRecord.LNAME # <<>>

C24_Witness ==
    /\ parser = "app"
    /\ text = join(NL, <<LINE_WORD, LINE_NAME>>)
    /\ record.name = Some(LINE_NAME)
    /\ NamesOfRecord.FNAME = <<"J">>
    /\ NamesOfRecord.LNAME = <<"D">>

(***************************************************************************)
(* The mailbox daemon                                                      *)
(*   email_processor.py monitor_inbox 245-278                              *)
(* A message is its sequence number in INBOX.  What                        *)
(* process_email_message does with the attachments of a message is the     *)
(* pipeline of the entry points above; here it is the outcome it logs.     *)
(***************************************************************************)
MaxMessages == 2
MaxPolls == 2

(* how process_email_message ends: it returns None in every case, its own  *)
(* try / except Exception catches what is raised inside                    *)
ProcessOutcomes == {"fetch_not_ok", "no_attachment", "no_text", "no_email",
                    "added", "failed", "error"}

(* the set of sequence numbers as an ascending sequence *)
RECURSIVE Ascending(_)
Ascending(ids) ==
    IF ids = {} THEN <<>>
    ELSE LET m == CHOOSE x \in ids : \A y \in ids : x <= y
         IN  <<m>> \o Ascending(ids \ {m})

(* mail.search(None, "UNSEEN"); messages[0].split() *)
SearchUnseen(box, flagged) == Ascending(box \ flagged)

(* the flags are left as they are *)
StoreNothing(flagged, id) == flagged
(* mail.store(email_id, '+FLAGS', '\\Seen') *)
StoreSeen(flagged, id) == flagged \cup {id}

(* the except clause of the poll: log, sleep 60, next round of the loop *)
ConnectionError ==
    /\ mpc' = "idle"
    /\ poll_ok' = FALSE

InitInbox ==
    /\ ScorerIdle
    /\ ParseIdle
    /\ EntryIdle
    /\ SplitIdle
    /\ UploadIdle
    /\ inbox = {}
    /\ seen = {}
    /\ mpc = "idle"
    /\ polls = 0
    /\ email_ids = <<>>
    /\ at = 0
    /\ events = <<>>
    /\ poll_ok = FALSE
    /\ settled = {}

othersIdle == <<scorerVars, parseVars, entryVars, splitVars, uploadVars>>

(* a message is delivered to the mailbox *)
Arrive ==
    /\ Cardinality(inbox) < MaxMessages
    /\ inbox' = inbox \cup {Cardinality(inbox) + 1}
    /\ UNCHANGED <<seen, mpc, polls, email_ids, at, events, poll_ok, settled,
                   othersIdle>>

(* IMAP4_SSL, login, select *)
Connect ==
    /\ mpc = "idle"
    /\ polls < MaxPolls
    /\ polls' = polls + 1
    /\ mpc' = "connected"
    /\ email_ids' = <<>>
    /\ at' = 0
    /\ events' = <<>>
    /\ poll_ok' = FALSE
    /\ UNCHANGED <<inbox, seen, settled, othersIdle>>

ConnectRaises ==
    /\ mpc = "idle"
    /\ polls < MaxPolls
    /\ polls' = polls + 1
    /\ email_ids' = <<>>
    /\ at' = 0
    /\ events' = <<>>
    /\ ConnectionError
    /\ UNCHANGED <<inbox, seen, settled, othersIdle>>

(* status, messages = mail.search(None, "UNSEEN"); the loop runs over      *)
(* email_ids when status is OK and email_ids is not empty                  *)
SearchMail ==
    /\ mpc = "connected"
    /\ \E status \in {"OK", "NO"} :
          email_ids' = IF status = "OK" THEN SearchUnseen(inbox, seen)
                       ELSE <<>>
    /\ at' = 1
    /\ mpc' = "loop"
    /\ UNCHANGED <<inbox, seen, polls, events, poll_ok, settled, othersIdle>>

SearchMailRaises ==
    /\ mpc = "connected"
    /\ ConnectionError
    /\ UNCHANGED <<inbox, seen, polls, email_ids, at, events, settled,
                   othersIdle>>

(* process_email_message(mail, email_id): a fetch that is answered OK may  *)
(* set \Seen on the server (RFC822 is not a PEEK)                          *)
Process ==
    /\ mpc = "loop"
    /\ at <= Len(email_ids)
    /\ \E outcome \in ProcessOutcomes, implicit \in BOOLEAN :
          /\ events' = Append(events, [op |-> "process", id |-> email_ids[at],
                                       outcome |-> outcome])
          /\ seen' = IF implicit /\ outcome # "fetch_not_ok"
                     THEN seen \cup {email_ids[at]} ELSE seen
    /\ mpc' = "processed"
    /\ UNCHANGED <<inbox, polls, email_ids, at, poll_ok, settled, othersIdle>>

(* mail.store(email_id, '+FLAGS', '\\Seen'): the status it returns is not  *)
(* looked at; a server that answers NO leaves the flags as they are        *)
Store ==
    /\ mpc = "processed"
    /\ \E status \in {"OK", "NO"} :
          /\ seen' = IF status = "OK" THEN StoreSeen(seen, email_ids[at])
                     ELSE seen
          /\ events' = Append(events, [op |-> "store", id |-> email_ids[at],
                                       outcome |-> status])
    /\ at' = at + 1
    /\ mpc' = "loop"
    /\ UNCHANGED <<inbox, polls, email_ids, poll_ok, settled, othersIdle>>

StoreRaises ==
    /\ mpc = "processed"
    /\ ConnectionError
    /\ UNCHANGED <<inbox, seen, polls, email_ids, at, events, settled,
                   othersIdle>>

(* every STORE of the poll was answered OK *)
AllStored ==
    \A n \in 1..Len(events) : events[n].op = "store" => events[n].outcome = "OK"

(* mail.close(); mail.logout(); time.sleep(30): the poll has ended without *)
(* an exception; it was successful when the server refused nothing         *)
Close ==
    /\ mpc = "loop"
    /\ at > Len(email_ids)
    /\ mpc' = "idle"
    /\ poll_ok' = AllStored
    /\ settled' = IF AllStored
                  THEN settled \cup {email_ids[k] : k \in 1..Len(email_ids)}
                  ELSE settled
    /\ UNCHANGED <<inbox, seen, polls, email_ids, at, events, othersIdle>>

CloseRaises ==
    /\ mpc = "loop"
    /\ at > Len(email_ids)
    /\ ConnectionError
    /\ UNCHANGED <<inbox, seen, polls, email_ids, at, events, settled,
                   othersIdle>>

NextInbox ==
    \/ Arrive
    \/ Connect
    \/ ConnectRaises
    \/ SearchMail
    \/ SearchMailRaises
    \/ Process
    \/ Store
    \/ StoreRaises
    \/ Close
    \/ CloseRaises

SpecInbox == InitInbox /\ [][NextInbox]_vars

(* C25: a successful poll (no exception, no command refused) has processed *)
(* and then marked Seen every message of its UNSEEN search, one after the  *)
(* other in search order, whatever the outcome of processing was; the      *)
(* messages of such a poll carry \Seen and no later poll processes them.   *)
C25_ProcessedThenSeen ==
    /\ poll_ok =>
          /\ Len(events) = 2 * Len(email_ids)
          /\ \A k \in 1..Len(email_ids) :
                /\ events[2 * k - 1].op = "process"
                /\ events[2 * k - 1].id = email_ids[k]
                /\ events[2 * k].op = "store"
                /\ events[2 * k].id = email_ids[k]
    /\ settled \subseteq seen
    /\ \A n \in 1..Len(events) :
          (events[n].op = "process" /\ ~poll_ok) => events[n].id \notin settled

C25_Witness ==
    /\ poll_ok
    /\ polls = 2
    /\ settled = {1, 2}
    /\ email_ids = <<2>>
    /\ events[1].outcome = "fetch_not_ok"
    /\ events[2].op = "store"

====
